---- MODULE Spec2Model ----
(***************************************************************************)
(* Model of the visa-free stay analyzer (src/visa_stay_analyzer.py) and of *)
(* its South Korea wrapper (src/analyze_korea_stay.py).                    *)
(*                                                                         *)
(* The run analyze_visa_stays performs is a pipeline:                      *)
(*   load_flights -> calculate_stays -> print_stays_report ->              *)
(*   print_summary -> print_future_availability.                           *)
(* A datetime is a calendar date (a day number) and a time of day; a CSV   *)
(* timestamp field is a text in one of the encodings parse_datetime knows, *)
(* an unparseable text, or empty.  The display-only columns (Date,         *)
(* Airline, Flight) and the printed text are left out: no state depends on *)
(* them.                                                                   *)
(***************************************************************************)
EXTENDS Integers, Sequences, FiniteSets, TLC

VARIABLES
    pc,                    \* position of the run inside analyze_visa_stays
    rows,                  \* the CSV file: the rows csv.DictReader yields, in file order
    reference_date,        \* argument reference_date (a datetime at midnight)
    window_days,           \* argument window_days
    max_days_in_window,    \* argument max_days_in_window
    max_consecutive_days,  \* argument max_consecutive_days (0: None, no cap)
    flights,               \* the list load_flights returns
    stays,                 \* the list calculate_stays builds
    current_entry,         \* calculate_stays' current_entry (<<>>: None)
    i,                     \* calculate_stays' position in flights
    total_days,            \* the total print_stays_report returns
    k,                     \* print_future_availability's position in desired_stays
    availability,          \* what print_future_availability reported, per desired stay
    date1, date2, delta    \* a direct call calculate_days_between(date1, date2) and its result

vars == <<pc, rows, reference_date, window_days, max_days_in_window,
          max_consecutive_days, flights, stays, current_entry, i, total_days,
          k, availability, date1, date2, delta>>

(***************************************************************************)
(* datetime values                                                         *)
(***************************************************************************)

\* None, as parse_datetime returns it for an absent or unparseable text.
None == [some |-> FALSE, date |-> 0, time |-> 0]

\* A datetime: calendar date `d` (a day number) and time of day `t` (0: 00:00).
DT(d, t) == [some |-> TRUE, date |-> d, time |-> t]

\* datetime.__lt__ and datetime.__le__
Lt(a, b) == a.date < b.date \/ (a.date = b.date /\ a.time < b.time)
Le(a, b) == ~Lt(b, a)

\* the builtins max and min on two datetimes
Max(a, b) == IF Lt(a, b) THEN b ELSE a
Min(a, b) == IF Lt(b, a) THEN b ELSE a

\* dt + timedelta(days=n)
PlusDays(dt, n) == DT(dt.date + n, dt.time)

(***************************************************************************)
(* CSV timestamp fields and parse_datetime                                 *)
(***************************************************************************)

Empty == [fmt |-> "empty", date |-> 0, time |-> 0]
Garbled == [fmt |-> "bad", date |-> 0, time |-> 0]
\* '2025-01-05T10:30:00' or '2025-01-05 10:30:00'
IsoText(d, t) == [fmt |-> "datetime", date |-> d, time |-> t]
\* '2025-01-05' or '01/05/2025': a date alone
DateText(d) == [fmt |-> "date", date |-> d, time |-> 0]

parse_datetime(date_str) ==
    IF date_str.fmt = "empty" THEN None
    ELSE IF date_str.fmt = "datetime" THEN DT(date_str.date, date_str.time)
    ELSE IF date_str.fmt = "date" THEN DT(date_str.date, 0)
    ELSE None

\* `a or b` on two parse results: a datetime is always truthy
OrElse(a, b) == IF a.some THEN a ELSE b

(***************************************************************************)
(* calculate_days_between                                                  *)
(***************************************************************************)

calculate_days_between(d1, d2) ==
    IF ~d1.some \/ ~d2.some THEN 0
    ELSE IF Lt(d2, d1) THEN 0
    ELSE (d2.date - d1.date) + 1

(***************************************************************************)
(* load_flights                                                            *)
(***************************************************************************)

\* The airport codes of the country (analyze_korea_stay.KOREA_AIRPORTS; the
\* two the modelled routes use).
KOREA_AIRPORTS == {"ICN", "GMP"}

\* One CSV row: the columns load_flights reads.
Row(from, to, canceled, gate_arr, landing, gate_dep, take_off) ==
    [From |-> from, To |-> to, Canceled |-> canceled,
     GateArrival |-> gate_arr, Landing |-> landing,
     GateDeparture |-> gate_dep, TakeOff |-> take_off]

is_arrival(row, airport_codes) ==
    row.To \in airport_codes /\ row.From \notin airport_codes
is_departure(row, airport_codes) ==
    row.From \in airport_codes /\ row.To \notin airport_codes

\* The dictionary load_flights appends for CSV row number n (n stands for the
\* identity of the dictionary object).
Flight(n, row, airport_codes) ==
    [row |-> n,
     is_arrival |-> is_arrival(row, airport_codes),
     is_departure |-> is_departure(row, airport_codes),
     arrival_time |-> OrElse(parse_datetime(row.GateArrival),
                             parse_datetime(row.Landing)),
     departure_time |-> OrElse(parse_datetime(row.GateDeparture),
                               parse_datetime(row.TakeOff))]

\* The for loop over the reader: the flights appended, in file order.
RECURSIVE Appended(_, _, _)
Appended(rs, n, airport_codes) ==
    IF n > Len(rs) THEN <<>>
    ELSE LET row == rs[n]
             rest == Appended(rs, n + 1, airport_codes)
         IN IF row.Canceled THEN rest
            ELSE IF is_arrival(row, airport_codes) \/ is_departure(row, airport_codes)
                 THEN <<Flight(n, row, airport_codes)>> \o rest
                 ELSE rest

\* The sort key: lambda x: x['arrival_time'] if x['is_arrival'] else x['departure_time']
SortKey(x) == IF x.is_arrival THEN x.arrival_time ELSE x.departure_time

\* list.sort compares keys with <; None < datetime (or None < None) raises
\* TypeError.  Every element of a list of two or more takes part in a comparison.
SortRaises(fs) == Len(fs) >= 2 /\ \E n \in 1..Len(fs) : ~SortKey(fs[n]).some

\* Insert x into a sorted list after every element whose key is <= x's key.
RECURSIVE InsertSorted(_, _)
InsertSorted(sorted, x) ==
    IF sorted = <<>> THEN <<x>>
    ELSE IF Lt(SortKey(x), SortKey(Head(sorted)))
         THEN <<x>> \o sorted
         ELSE <<Head(sorted)>> \o InsertSorted(Tail(sorted), x)

RECURSIVE StableSort(_)
StableSort(fs) ==
    IF fs = <<>> THEN <<>>
    ELSE InsertSorted(StableSort(SubSeq(fs, 1, Len(fs) - 1)), fs[Len(fs)])

\* flights.sort(key=...) left out: the flights stay in file order.
SortFlightsUnsorted(fs) == fs

\* flights.sort(key=...): ascending by key, equal keys in their original order.
SortFlights(fs) == StableSort(fs)

(***************************************************************************)
(* calculate_stays: the body of the for loop                               *)
(***************************************************************************)

Stay(entry, exit) ==
    [entry |-> entry, exit |-> exit,
     entry_date |-> entry.arrival_time, exit_date |-> exit.departure_time]

\* The first pending arrival is kept: an arrival does not replace a pending one.
StaysStepFirstEntryWins(flight, cur, sts) ==
    IF flight.is_arrival
    THEN [cur |-> IF cur = <<>> THEN <<flight>> ELSE cur, sts |-> sts]
    ELSE IF flight.is_departure /\ cur # <<>>
         THEN [cur |-> <<>>, sts |-> Append(sts, Stay(cur[1], flight))]
         ELSE [cur |-> cur, sts |-> sts]

\* One iteration: the new current_entry (cur) and stays (sts).
StaysStep(flight, cur, sts) ==
    IF flight.is_arrival
    THEN [cur |-> <<flight>>, sts |-> sts]
    ELSE IF flight.is_departure /\ cur # <<>>
         THEN [cur |-> <<>>, sts |-> Append(sts, Stay(cur[1], flight))]
         ELSE [cur |-> cur, sts |-> sts]

(***************************************************************************)
(* calculate_days_in_window and print_stays_report                         *)
(***************************************************************************)

\* The body of calculate_days_in_window's loop: what one stay adds to total_days.
DaysOfStayInWindow(stay, window_start, window_end) ==
    LET window_entry == Max(stay.entry_date, window_start)
        window_exit == Min(stay.exit_date, window_end)
    IN IF Le(window_start, window_exit) /\ Le(window_entry, window_end)
       THEN calculate_days_between(window_entry, window_exit)
       ELSE 0

RECURSIVE calculate_days_in_window(_, _, _)
calculate_days_in_window(sts, window_start, window_end) ==
    IF sts = <<>> THEN 0
    ELSE DaysOfStayInWindow(Head(sts), window_start, window_end)
         + calculate_days_in_window(Tail(sts), window_start, window_end)

\* The whole length of every stay is added, not its days inside the window.
RECURSIVE print_stays_report_total_stay_days(_, _, _)
print_stays_report_total_stay_days(sts, window_start, today) ==
    IF sts = <<>> THEN 0
    ELSE calculate_days_between(Head(sts).entry_date, Head(sts).exit_date)
         + print_stays_report_total_stay_days(Tail(sts), window_start, today)

\* print_stays_report: the total it returns (its prints are left out).
RECURSIVE print_stays_report(_, _, _)
print_stays_report(sts, window_start, today) ==
    IF sts = <<>> THEN 0
    ELSE LET stay == Head(sts)
             window_entry == Max(stay.entry_date, window_start)
             window_exit == Min(stay.exit_date, today)
             days_in_window ==
                 IF Le(window_start, window_exit) /\ Le(window_entry, today)
                 THEN calculate_days_between(window_entry, window_exit)
                 ELSE 0
             in_window == days_in_window > 0
         IN (IF in_window THEN days_in_window ELSE 0)
            + print_stays_report(Tail(sts), window_start, today)

(***************************************************************************)
(* print_future_availability                                               *)
(***************************************************************************)

\* range(1, 365): the stop value of the search loop
RangeStop == 365

\* max_consecutive_days as print_future_availability receives it,
\* `max_consecutive_days or float('inf')`: 0 stands for None and for infinity.
Unlimited(cap) == cap = 0

\* desired_stays = [30, 60] if max_consecutive_days >= 60 else [30]
desired_stays(cap) == IF Unlimited(cap) \/ cap >= 60 THEN <<30, 60>> ELSE <<30>>

\* if desired_days > max_consecutive_days > 0: continue
Skipped(desired_days, cap) ==
    ~Unlimited(cap) /\ desired_days > cap /\ cap > 0

\* The desired days are not set aside.
MaxUsedDaysNothingReserved(max_days, desired_days) == max_days

\* max_used_days = max_days_in_window - required_available
MaxUsedDays(max_days, desired_days) == max_days - desired_days

\* The window that ends on `day`: day - timedelta(days=window_days - 1)
WindowStart(day, wdays) == PlusDays(day, -(wdays - 1))

\* future_days for iteration days_forward: the days in the window ending on
\* today + timedelta(days=days_forward)
FutureDays(sts, today, wdays, days_forward) ==
    LET future_date == PlusDays(today, days_forward)
    IN calculate_days_in_window(sts, WindowStart(future_date, wdays), future_date)

\* The first days_forward in lo..hi, in ascending order, whose future_days is
\* <= max_used_days (0: there is none).  The loop tries them one after the
\* other and breaks at the first; the interval is halved here only to keep the
\* evaluation shallow.
RECURSIVE FirstFound(_, _, _, _, _, _)
FirstFound(sts, today, wdays, max_used_days, lo, hi) ==
    IF lo > hi THEN 0
    ELSE IF lo = hi
         THEN (IF FutureDays(sts, today, wdays, lo) <= max_used_days THEN lo ELSE 0)
         ELSE LET mid == (lo + hi) \div 2
                  first == FirstFound(sts, today, wdays, max_used_days, lo, mid)
              IN IF first # 0 THEN first
                 ELSE FirstFound(sts, today, wdays, max_used_days, mid + 1, hi)

\* for days_forward in range(1, 365): ... break at the first date found;
\* what the loop prints, and the iterations it ran.
SearchForward(sts, today, wdays, max_used_days) ==
    LET found == FirstFound(sts, today, wdays, max_used_days, 1, RangeStop - 1)
    IN IF found = 0
       THEN [kind |-> "not_found", days_forward |-> 0, future_days |-> 0,
             iterations |-> RangeStop - 1]
       ELSE [kind |-> "wait", days_forward |-> found,
             future_days |-> FutureDays(sts, today, wdays, found),
             iterations |-> found]

\* One iteration of `for desired_days in desired_stays`.
Availability(sts, today, wdays, max_days, cap, total, desired_days) ==
    IF Skipped(desired_days, cap)
    THEN [kind |-> "skipped", days_forward |-> 0, future_days |-> 0, iterations |-> 0]
    ELSE LET max_used_days == MaxUsedDays(max_days, desired_days)
         IN IF total <= max_used_days
            THEN [kind |-> "today", days_forward |-> 0, future_days |-> total,
                  iterations |-> 0]
            ELSE SearchForward(sts, today, wdays, max_used_days)

(***************************************************************************)
(* Inputs                                                                  *)
(***************************************************************************)

\* South Korea's rules (analyze_korea_stay.py)
WINDOW_DAYS == 180
MAX_DAYS_IN_WINDOW == 90
MAX_CONSECUTIVE_DAYS == 60

\* The longest CSV file modelled, in rows.
MaxRows == 4

\* Border crossings with resolved timestamps.  Dates are day numbers.
ArriveDay10 ==
    Row("NRT", "ICN", FALSE, DateText(10), Empty, IsoText(9, 2), Empty)
DepartDay100Midnight ==
    Row("ICN", "NRT", FALSE, IsoText(100, 1), Empty, DateText(100), Empty)
\* gate arrival unparseable: the landing time is used
ArriveDay100Morning ==
    Row("NRT", "GMP", FALSE, Garbled, IsoText(100, 1), IsoText(100, 0), Empty)
\* gate departure absent: the take-off time is used
DepartDay100Evening ==
    Row("ICN", "NRT", FALSE, Empty, Empty, Empty, IsoText(100, 2))
DepartDay190 ==
    Row("GMP", "NRT", FALSE, IsoText(190, 1), Empty, DateText(190), Empty)
DepartDay435 ==
    Row("ICN", "NRT", FALSE, IsoText(435, 1), Empty, DateText(435), Empty)
\* an arrival with neither arrival timestamp resolvable
ArriveUnresolved ==
    Row("NRT", "ICN", FALSE, Garbled, Empty, IsoText(50, 1), Empty)
CanceledArrival ==
    Row("NRT", "ICN", TRUE, IsoText(50, 1), Empty, IsoText(50, 0), Empty)
Domestic ==
    Row("ICN", "GMP", FALSE, IsoText(50, 2), Empty, IsoText(50, 1), Empty)

\* A traveller's complete log, newest flight first: every crossing has its
\* timestamp.
TravelLog == <<DepartDay435, DepartDay190, DepartDay100Evening,
               ArriveDay100Morning, DepartDay100Midnight, ArriveDay10>>

\* Rows of raw exports: crossings, rows load_flights must filter, and a
\* crossing with no resolvable timestamp.
RawRows == {ArriveDay10, DepartDay100Midnight, ArriveDay100Morning,
            DepartDay100Evening, ArriveUnresolved, CanceledArrival, Domestic}

SeqsUpTo(S, n) == UNION {[1..m -> S] : m \in 0..n}

\* The rows of `log` whose positions are in S, in the log's order.
RECURSIVE Pick(_, _, _)
Pick(log, S, n) ==
    IF n > Len(log) THEN <<>>
    ELSE (IF n \in S THEN <<log[n]>> ELSE <<>>) \o Pick(log, S, n + 1)

\* The logs that hold some of TravelLog's flights.
TravelLogs ==
    {Pick(TravelLog, S, 1) :
        S \in {T \in SUBSET (1..Len(TravelLog)) : Cardinality(T) <= MaxRows}}

\* -d/--date (or today's date): a datetime at 00:00
ReferenceDates == {DT(100, 0), DT(190, 0), DT(219, 0), DT(230, 0)}

\* datetime.now() at 00:00 on the day the wrapper runs
Today == DT(190, 0)

\* -x/--max-consecutive: the wrapper's 60, none (0), and a cap below 30
ConsecutiveCaps == {MAX_CONSECUTIVE_DAYS, 0, 20}

(***************************************************************************)
(* analyze_visa_stays                                                      *)
(***************************************************************************)

Idle ==
    /\ flights = <<>>
    /\ stays = <<>>
    /\ current_entry = <<>>
    /\ i = 1
    /\ total_days = 0
    /\ k = 1
    /\ availability = <<>>

\* analyze_korea_stay.main on any raw export of up to MaxRows rows.
Init ==
    /\ pc = "load_flights"
    /\ rows \in SeqsUpTo(RawRows, MaxRows)
    /\ reference_date = Today
    /\ window_days = WINDOW_DAYS
    /\ max_days_in_window = MAX_DAYS_IN_WINDOW
    /\ max_consecutive_days = MAX_CONSECUTIVE_DAYS
    /\ Idle
    /\ date1 = None /\ date2 = None /\ delta = 0

\* visa_stay_analyzer.main on a travel log, with -w 180 -m 90 and any -x, -d.
InitCli ==
    /\ pc = "load_flights"
    /\ rows \in TravelLogs
    /\ reference_date \in ReferenceDates
    /\ window_days = WINDOW_DAYS
    /\ max_days_in_window = MAX_DAYS_IN_WINDOW
    /\ max_consecutive_days \in ConsecutiveCaps
    /\ Idle
    /\ date1 = None /\ date2 = None /\ delta = 0

\* flights = load_flights(csv_path, airport_codes); if not flights: return
LoadFlights ==
    /\ pc = "load_flights"
    /\ LET appended == Appended(rows, 1, KOREA_AIRPORTS)
       IN IF SortRaises(appended)
          THEN /\ pc' = "TypeError"
               /\ UNCHANGED flights
          ELSE /\ flights' = SortFlights(appended)
               /\ pc' = IF flights' = <<>> THEN "done" ELSE "calculate_stays"
    /\ UNCHANGED <<rows, reference_date, window_days, max_days_in_window,
                   max_consecutive_days, stays, current_entry, i, total_days,
                   k, availability, date1, date2, delta>>

\* calculate_stays: one iteration of `for flight in flights`
CalculateStaysStep ==
    /\ pc = "calculate_stays"
    /\ i <= Len(flights)
    /\ LET r == StaysStep(flights[i], current_entry, stays)
       IN /\ current_entry' = r.cur
          /\ stays' = r.sts
    /\ i' = i + 1
    /\ UNCHANGED <<pc, rows, reference_date, window_days, max_days_in_window,
                   max_consecutive_days, flights, total_days, k, availability,
                   date1, date2, delta>>

\* calculate_stays returns; if not stays: return
CalculateStaysReturn ==
    /\ pc = "calculate_stays"
    /\ i > Len(flights)
    /\ pc' = IF stays = <<>> THEN "done" ELSE "print_stays_report"
    /\ UNCHANGED <<rows, reference_date, window_days, max_days_in_window,
                   max_consecutive_days, flights, stays, current_entry, i,
                   total_days, k, availability, date1, date2, delta>>

\* total_days = print_stays_report(stays, window_start, reference_date, ...);
\* print_summary(...) prints only
PrintStaysReport ==
    /\ pc = "print_stays_report"
    /\ total_days' = print_stays_report(stays, WindowStart(reference_date, window_days),
                                        reference_date)
    /\ pc' = "print_future_availability"
    /\ UNCHANGED <<rows, reference_date, window_days, max_days_in_window,
                   max_consecutive_days, flights, stays, current_entry, i,
                   k, availability, date1, date2, delta>>

\* print_future_availability: one iteration of `for desired_days in desired_stays`
PrintFutureAvailabilityStep ==
    /\ pc = "print_future_availability"
    /\ k <= Len(desired_stays(max_consecutive_days))
    /\ LET desired_days == desired_stays(max_consecutive_days)[k]
           r == Availability(stays, reference_date, window_days, max_days_in_window,
                             max_consecutive_days, total_days, desired_days)
       IN availability' = Append(availability,
                                 [desired_days |-> desired_days, kind |-> r.kind,
                                  days_forward |-> r.days_forward,
                                  future_days |-> r.future_days,
                                  iterations |-> r.iterations])
    /\ k' = k + 1
    /\ UNCHANGED <<pc, rows, reference_date, window_days, max_days_in_window,
                   max_consecutive_days, flights, stays, current_entry, i,
                   total_days, date1, date2, delta>>

\* print_future_availability returns, and analyze_visa_stays with it
PrintFutureAvailabilityReturn ==
    /\ pc = "print_future_availability"
    /\ k > Len(desired_stays(max_consecutive_days))
    /\ pc' = "done"
    /\ UNCHANGED <<rows, reference_date, window_days, max_days_in_window,
                   max_consecutive_days, flights, stays, current_entry, i,
                   total_days, k, availability, date1, date2, delta>>

Next ==
    \/ LoadFlights
    \/ CalculateStaysStep
    \/ CalculateStaysReturn
    \/ PrintStaysReport
    \/ PrintFutureAvailabilityStep
    \/ PrintFutureAvailabilityReturn

Spec == Init /\ [][Next]_vars

SpecCli == InitCli /\ [][Next]_vars

(***************************************************************************)
(* A direct call of calculate_days_between                                 *)
(***************************************************************************)

\* The arguments tried: None, and datetimes on four dates at three times of day.
Arguments == {None} \cup {DT(d, t) : d \in {99, 100, 101, 190}, t \in 0..2}

InitDays ==
    /\ pc = "calculate_days_between"
    /\ date1 \in Arguments
    /\ date2 \in Arguments
    /\ delta = 0
    /\ rows = <<>>
    /\ reference_date = Today
    /\ window_days = WINDOW_DAYS
    /\ max_days_in_window = MAX_DAYS_IN_WINDOW
    /\ max_consecutive_days = MAX_CONSECUTIVE_DAYS
    /\ Idle

CalculateDaysBetween ==
    /\ pc = "calculate_days_between"
    /\ delta' = calculate_days_between(date1, date2)
    /\ pc' = "returned"
    /\ UNCHANGED <<rows, reference_date, window_days, max_days_in_window,
                   max_consecutive_days, flights, stays, current_entry, i,
                   total_days, k, availability, date1, date2>>

NextDays == CalculateDaysBetween

SpecDays == InitDays /\ [][NextDays]_vars

(***************************************************************************)
(* Properties                                                              *)
(***************************************************************************)

\* calculate_stays has returned a non-empty list to analyze_visa_stays
Reconstructed ==
    pc \in {"print_stays_report", "print_future_availability", "done"} /\ stays # <<>>

\* print_future_availability has returned
Reported == pc = "done" /\ availability # <<>>

\* used(d) for d = reference_date + days_forward: the Window Accounting total
\* over the window of window_days dates ending on d
Used(days_forward) == FutureDays(stays, reference_date, window_days, days_forward)

\* The traveller is in the country on calendar date d during one of the stays.
InCountry(sts, d) ==
    \E n \in 1..Len(sts) : sts[n].entry_date.date <= d /\ d <= sts[n].exit_date.date

\* The number of calendar dates of from..to on which the traveller is in the
\* country, during one of the stays or during a new stay on the dates
\* first..last.
DaysInCountry(sts, first, last, from, to) ==
    Cardinality({d \in from..to : InCountry(sts, d) \/ (first <= d /\ d <= last)})

\* C1: whenever a date d is reported for a desired stay (today, or a date to
\* wait until), a new stay on the dates d .. d + desired_days - 1 keeps the
\* number of days in the country within max_days_in_window in the window of
\* window_days dates ending on every date e of the new stay.  The days in the
\* country are the calendar dates on which the traveller is there, each
\* counted once.
C1_ProjectionSound ==
    Reported =>
        \A n \in 1..Len(availability) :
            LET a == availability[n]
                d == reference_date.date + a.days_forward
                last == d + a.desired_days - 1
            IN a.kind \in {"today", "wait"} =>
                   \A e \in d..last :
                       DaysInCountry(stays, d, last, e - window_days + 1, e)
                           <= max_days_in_window

\* C1's case: a date to wait until was reported on which the days used leave
\* exactly the desired days.
C1_Witness ==
    /\ Reported
    /\ \E n \in 1..Len(availability) :
           /\ availability[n].kind = "wait"
           /\ availability[n].future_days
                  = max_days_in_window - availability[n].desired_days

\* C2: for every desired stay the cap admits, the reference date is reported
\* exactly when used(reference_date) <= quota - desired_days; a date to wait
\* until is after the reference date, satisfies used(d) <= quota -
\* desired_days, and every date between the two has used(d') > quota -
\* desired_days; and print_stays_report's total is used(reference_date).
C2_EarliestDate ==
    Reported =>
        /\ total_days = Used(0)
        /\ \A n \in 1..Len(availability) :
               LET a == availability[n]
                   quota_left == max_days_in_window - a.desired_days
               IN a.kind # "skipped" =>
                      /\ a.kind = "today" <=> Used(0) <= quota_left
                      /\ a.kind = "wait" =>
                             /\ a.days_forward >= 1
                             /\ Used(a.days_forward) <= quota_left
                             /\ a.future_days = Used(a.days_forward)
                             /\ \A f \in 1..(a.days_forward - 1) : Used(f) > quota_left

\* C2's case: one desired stay is available today and for another the search
\* passed over dates that do not qualify.
C2_Witness ==
    /\ Reported
    /\ \E n \in 1..Len(availability) : availability[n].kind = "today"
    /\ \E n \in 1..Len(availability) :
           availability[n].kind = "wait" /\ availability[n].days_forward > 1

\* The number of calendar dates d with max(entry date, window start) <= d <=
\* min(exit date, window end).
CalendarDays(stay, window_start, window_end) ==
    Cardinality({d \in window_start.date..window_end.date :
                     stay.entry_date.date <= d /\ d <= stay.exit_date.date})

\* C3: what a stay adds to the window total is the number of calendar dates
\* the stay shares with the window, whatever the times of day.
C3_CalendarDates ==
    Reconstructed =>
        \A n \in 1..Len(stays) :
            DaysOfStayInWindow(stays[n], WindowStart(reference_date, window_days),
                               reference_date)
                = CalendarDays(stays[n], WindowStart(reference_date, window_days),
                               reference_date)

\* C4: the window total of the reconstructed stays is never negative and
\* never more than window_days.
C4_TotalWithinWindow ==
    Reconstructed =>
        /\ Used(0) >= 0
        /\ Used(0) <= window_days

\* The arrivals before position j with no departure between them and j.
PendingBefore(fs, j) ==
    {m \in 1..(j - 1) :
        fs[m].is_arrival /\ \A x \in (m + 1)..(j - 1) : ~fs[x].is_departure}

Latest(S) == CHOOSE m \in S : \A x \in S : x <= m

\* The stays the first n events call for: a departure with an arrival pending
\* is paired with the latest one.
RECURSIVE PairedStays(_, _)
PairedStays(fs, n) ==
    IF n = 0 THEN <<>>
    ELSE PairedStays(fs, n - 1)
         \o (IF fs[n].is_departure /\ PendingBefore(fs, n) # {}
             THEN <<Stay(fs[Latest(PendingBefore(fs, n))], fs[n])>>
             ELSE <<>>)

\* The events (by CSV row) the stays use, entries and exits together.
EventsUsed(sts) ==
    [n \in 1..(2 * Len(sts)) |->
        IF n <= Len(sts) THEN sts[n].entry.row ELSE sts[n - Len(sts)].exit.row]

\* C5: after any number of events, the stays emitted are those of the
\* departures that had an arrival since the departure before, each paired
\* with the most recent such arrival; pending_entry is that arrival if the
\* last event was one; and no event is in two stays.
C5_PendingEntryMachine ==
    pc \in {"calculate_stays", "print_stays_report", "print_future_availability"} =>
        /\ stays = PairedStays(flights, i - 1)
        /\ current_entry = (IF PendingBefore(flights, i) = {} THEN <<>>
                            ELSE <<flights[Latest(PendingBefore(flights, i))]>>)
        /\ \A m, n \in 1..(2 * Len(stays)) :
               m # n => EventsUsed(stays)[m] # EventsUsed(stays)[n]

\* C5's case: ENTRY, ENTRY, EXIT gave one stay, whose entry is the second ENTRY.
C5_Witness ==
    /\ pc = "print_stays_report"
    /\ Len(flights) = 3
    /\ flights[1].is_arrival /\ flights[2].is_arrival /\ flights[3].is_departure
    /\ Len(stays) = 1
    /\ stays[1].entry = flights[2]
    /\ stays[1].entry # flights[1]

\* The event's own timestamp
OwnTime(x) == IF x.is_arrival THEN x.arrival_time ELSE x.departure_time

\* load_flights has returned
Loaded == pc \notin {"load_flights", "TypeError", "calculate_days_between", "returned"}

\* C7: a crossing whose own timestamp cannot be resolved is never in what
\* load_flights returns, the events returned are in ascending order of
\* timestamp, and the run does not fail.
C7_UnresolvedNotEmitted ==
    /\ pc # "TypeError"
    /\ Loaded =>
           /\ \A n \in 1..Len(flights) : OwnTime(flights[n]).some
           /\ \A n \in 1..(Len(flights) - 1) :
                  Le(OwnTime(flights[n]), OwnTime(flights[n + 1]))

\* C8: "cannot calculate" is reported only if none of the dates
\* reference_date + 1 .. reference_date + 365 qualifies, and the loop runs at
\* most 365 times.
C8_Horizon365 ==
    Reported =>
        \A n \in 1..Len(availability) :
            LET a == availability[n]
            IN /\ a.iterations <= 365
               /\ a.kind = "not_found" =>
                      \A f \in 1..365 : Used(f) > max_days_in_window - a.desired_days

\* C9: with every timestamp resolved, each stay's entry is not after its exit
\* and each stay's exit is not after the next stay's entry.
C9_Chronological ==
    (Loaded /\ \A n \in 1..Len(flights) : OwnTime(flights[n]).some) =>
        /\ \A n \in 1..Len(stays) : Le(stays[n].entry_date, stays[n].exit_date)
        /\ \A n \in 1..(Len(stays) - 1) :
               Le(stays[n].exit_date, stays[n + 1].entry_date)

\* C9's case: two stays were reconstructed from a file whose rows are not in
\* chronological order.
C9_Witness ==
    /\ Reconstructed
    /\ Len(stays) = 2
    /\ flights # Appended(rows, 1, KOREA_AIRPORTS)

\* C10: with every stay's exit date on or before the reference date, used(d)
\* does not increase from one date to the next, from the reference date to
\* the end of the search.
C10_Monotone ==
    (Reconstructed
        /\ \A n \in 1..Len(stays) : stays[n].exit_date.date <= reference_date.date) =>
        \A f \in 0..(RangeStop - 1) : Used(f + 1) <= Used(f)

\* C6: for two datetimes on the calendar dates a and b the result is 0 when
\* b < a and (b - a) + 1 otherwise, whatever the times of day.
C6_InclusiveDays ==
    (pc = "returned" /\ date1.some /\ date2.some) =>
        delta = (IF date2.date < date1.date THEN 0
                 ELSE (date2.date - date1.date) + 1)

====
